---------------------------- MODULE Spec2Model ----------------------------
(***************************************************************************)
(* Model of the background service worker of the Moodle Gemini Search      *)
(* extension (src/background.js): the per-model daily usage record kept in *)
(* chrome.storage.sync and the ANALYZE_CONTENT / SAVE_API_KEY handlers.     *)
(*                                                                         *)
(* JavaScript runs each handler on one event loop: the code between two    *)
(* awaits is atomic, and handlers of different messages interleave at the  *)
(* awaits.  Every action below is one such atomic segment: the completion  *)
(* of the awaited storage or network operation followed by the code up to  *)
(* the next await.                                                         *)
(***************************************************************************)
EXTENDS Integers, Sequences, FiniteSets, TLC

(***************************************************************************)
(* Bounds of the model.  The daily capacities of MODEL_CONFIG (50, 250,    *)
(* ...) are scaled down to DailyPro and DailyFlash so that exhaustion is   *)
(* reached with a handful of requests.                                     *)
(***************************************************************************)
NumRequests == 2
MaxDay == 2
DailyPro == 1
DailyFlash == 2

\* MODEL_CONFIG, in priority order (the first two entries of the source list).
MODEL_CONFIG ==
    << [name |-> "gemini-2.5-pro", daily |-> DailyPro],
       [name |-> "gemini-2.5-flash", daily |-> DailyFlash] >>

ModelNames == { MODEL_CONFIG[i].name : i \in 1..Len(MODEL_CONFIG) }
Days == 1..MaxDay
Reqs == 1..NumRequests

\* Keys of the modelUsage object: `${modelName}_${today}`.
ModelKey(modelName, today) == <<modelName, today>>
UsageKeys == { ModelKey(m, d) : m \in ModelNames, d \in Days }

\* The empty modelUsage object ({}): a key that is absent reads as 0
\* (usage[modelKey] || 0).
EmptyUsage == [k \in UsageKeys |-> 0]

\* model.daily of the MODEL_CONFIG entry named modelName.
Daily(modelName) ==
    LET i == CHOOSE j \in 1..Len(MODEL_CONFIG) : MODEL_CONFIG[j].name = modelName
    IN  MODEL_CONFIG[i].daily

NoModel == "none"

\* JavaScript values that the apiKey entry or a SAVE_API_KEY message may hold:
\* a string (a sequence of characters), or something that is not a string.
Blank == " "
Str(chars) == [type |-> "string", chars |-> chars]
Undefined == [type |-> "undefined", chars |-> <<>>]
Number == [type |-> "number", chars |-> <<>>]

RECURSIVE TrimLeft(_)
TrimLeft(s) == IF s # <<>> /\ Head(s) = Blank THEN TrimLeft(Tail(s)) ELSE s

RECURSIVE TrimRight(_)
TrimRight(s) ==
    IF s # <<>> /\ s[Len(s)] = Blank THEN TrimRight(SubSeq(s, 1, Len(s) - 1)) ELSE s

\* String.prototype.trim
Trim(s) == TrimRight(TrimLeft(s))

\* Values a SAVE_API_KEY message may carry: a blank string, a key with
\* surrounding blanks, and a value that is not a string.
KeyInputs == { Str(<<Blank>>), Str(<<Blank, "k", Blank>>), Number }

\* The usage records a previous session may have left in storage for the first
\* day: nothing, or every model after the first one already at its capacity.
LaterModelsFull ==
    [k \in UsageKeys |->
        IF k[2] = 1 /\ k[1] # MODEL_CONFIG[1].name THEN Daily(k[1]) ELSE 0]
InitUsages == { EmptyUsage, LaterModelsFull }

(***************************************************************************)
(* The content script's getPageContent.  A text is represented by its      *)
(* length, which is all that the truncation looks at.                      *)
(***************************************************************************)
ContentLimit == 8000
TruncationNoticeLength == 23    \* '... [content truncated]'

\* Lengths a selection (already trimmed) or a page body may have.
TextLengths == { 0, 1, 100, 7977, 7999, 8000, 8001, 8023, 9000, 16000 }

NotRead == -1

\* getPageContent(): the trimmed selection when there is one, otherwise the
\* body text, cut to 8000 characters plus the truncation notice when longer.
getPageContent(selectedText, bodyText) ==
    IF selectedText > 0 THEN selectedText
    ELSE IF bodyText > ContentLimit
         THEN ContentLimit + TruncationNoticeLength
         ELSE bodyText

\* The page before the content script has read it.
PageIdle == [selectedText |-> 0, bodyText |-> 0, content |-> NotRead]

(***************************************************************************)
(* The content script's popups and handleAIRequest.  The state of one      *)
(* content-script instance is a record s; the functions of the script are  *)
(* operators from records to records, so that calls made one after the     *)
(* other in one task compose.                                              *)
(***************************************************************************)
MaxKeyPresses == 2

\* The variants of the content script in the repository.
Scripts == { "content.js", "part_000", "part_003" }

\* Popup elements, numbered in the order of their creation; 0 stands for
\* null.  One key press creates at most four (two handleAIRequest calls, each
\* showing the loading popup and an error).
PopupIds == 1..(MaxKeyPresses * 4)

UiInit(script) ==
    [ script |-> script,
      isProcessingRequest |-> FALSE,
      currentPopup |-> 0,
      created |-> 0,
      kind |-> [p \in PopupIds |-> "none"],
      attached |-> {},        \* popups that are children of document.body
      timers |-> {},          \* error popups whose 10 s timer is pending
      dragListeners |-> {},   \* popups whose onMouseMove/onMouseUp are on document
      observers |-> {},       \* popups whose MutationObserver is connected
      mouseDown |-> 0,        \* the popup whose header holds the pressed mouse
      position |-> "idle",    \* the await handleAIRequest is suspended at
      cleanedKey |-> Undefined,
      pending |-> 0,          \* ANALYZE_CONTENT messages sent and not answered
      presses |-> 0 ]

UiIdle == UiInit("content.js")

\* "Remove existing popup if any", the head of the three display functions.
RemoveExisting(s) ==
    IF s.currentPopup # 0
    THEN [s EXCEPT !.attached = @ \ { s.currentPopup }, !.currentPopup = 0]
    ELSE s

\* createElement, appendChild and currentPopup = popup.
AppendPopup(s, kind) ==
    LET popup == s.created + 1
    IN  [s EXCEPT !.created = popup,
                  !.kind[popup] = kind,
                  !.attached = @ \cup { popup },
                  !.currentPopup = popup]

\* displayError: the popup is shown and its auto-remove timer started.  (The
\* API-key overlay part_003 opens for key errors is a separate element with
\* its own variables and is left out.)
displayError(s) ==
    LET t == AppendPopup(RemoveExisting(s), "error")
    IN  [t EXCEPT !.timers = @ \cup { t.currentPopup }]

displayLoading(s) == AppendPopup(RemoveExisting(s), "loading")

\* displayResponse: content.js and part_000 register the drag listeners on
\* the document at once (content.js with a MutationObserver to remove them),
\* part_003 registers them on mousedown.
displayResponse(s) ==
    LET t == AppendPopup(RemoveExisting(s), "response")
        popup == t.currentPopup
    IN  IF s.script = "content.js"
        THEN [t EXCEPT !.dragListeners = @ \cup { popup },
                       !.observers = @ \cup { popup }]
        ELSE IF s.script = "part_000"
        THEN [t EXCEPT !.dragListeners = @ \cup { popup }]
        ELSE t

\* The MutationObserver callbacks of content.js, delivered at the end of the
\* task that changed the children of document.body: the observer of a popup
\* that is no longer in the body removes its listeners and disconnects.
Observe(s) ==
    LET gone == s.observers \ s.attached
    IN  [s EXCEPT !.dragListeners = @ \ gone, !.observers = @ \ gone]

\* The click handler of a popup's close button.
clickClose(s, popup) ==
    IF s.script = "part_000"
    THEN [s EXCEPT !.attached = @ \ { popup }, !.currentPopup = 0]
    ELSE [s EXCEPT !.attached = @ \ { popup },
                   !.currentPopup = IF @ = popup THEN 0 ELSE @]

\* The callback of the 10 s timer of an error popup.
autoRemove(s, popup) ==
    LET t == [s EXCEPT !.timers = @ \ { popup }]
    IN  IF s.script = "content.js"
        THEN [t EXCEPT !.attached = @ \ { popup },
                       !.currentPopup = IF @ = popup THEN 0 ELSE @]
        ELSE IF s.script = "part_003"
        THEN IF popup \in s.attached
             THEN [t EXCEPT !.attached = @ \ { popup },
                            !.currentPopup = IF @ = popup THEN 0 ELSE @]
             ELSE t
        ELSE [t EXCEPT !.attached = @ \ { popup }]

\* The finally block of handleAIRequest.
Finish(s) == [s EXCEPT !.isProcessingRequest = FALSE, !.position = "idle"]

\* handleAIRequest from displayLoading() to the await of sendMessage: the
\* await of getPageImages(), which awaits nothing itself, resumes in the same
\* task.  Without a valid extension context an error is shown instead.
SendRequest(s, contextValid) ==
    LET t == displayLoading(s)
    IN  IF contextValid
        THEN [t EXCEPT !.pending = @ + 1, !.position = "send"]
        ELSE Finish(displayError(t))

\* handleAIRequest without its isProcessingRequest test.
handleAIRequestUnguarded(s, contextValid) ==
    LET t == [s EXCEPT !.isProcessingRequest = TRUE]
    IN  IF s.script = "content.js" /\ s.position = "idle"
        THEN [t EXCEPT !.position = "keyGet"]
        ELSE SendRequest(t, contextValid)

\* A call of handleAIRequest up to its first await that leaves the task.
handleAIRequest(s, contextValid) ==
    IF s.isProcessingRequest THEN s
    ELSE LET t == [s EXCEPT !.isProcessingRequest = TRUE]
         IN  IF s.script = "content.js"
             THEN [t EXCEPT !.position = "keyGet"]
             ELSE SendRequest(t, contextValid)

\* What the await of sendMessage may come to: the results of the background,
\* a result with neither field, no response at all, a rejected call.
Answers == { "success", "error", "unknown", "none", "rejected" }

\* showAnswer with the early returns of the error paths leaving the function
\* before isProcessingRequest is reset.
showAnswerNoFinally(s, answer) ==
    LET t == [s EXCEPT !.pending = @ - 1]
    IN  IF answer = "success" THEN Finish(displayResponse(t))
        ELSE [displayError(t) EXCEPT !.position = "idle"]

\* handleAIRequest after the await of sendMessage: the response popup for a
\* success, an error popup for everything else, then the finally block.
showAnswer(s, answer) ==
    LET t == [s EXCEPT !.pending = @ - 1]
    IN  Finish(IF answer = "success" THEN displayResponse(t) ELSE displayError(t))

VARIABLES
    day,        \* the local calendar day, new Date().toDateString()
    apiKey,     \* chrome.storage.sync: the apiKey entry
    store,      \* chrome.storage.sync: the modelUsage entry
    pc,         \* pc[r]: the await request r is suspended at
    sel,        \* selectedModel.name of request r (kept as the model of a success)
    checkDay,   \* the day isModelAvailable computed for request r, while in flight
    incDay,     \* the day incrementModelUsage computed for request r
    toSave,     \* the usage object incrementModelUsage of r is about to save
    result,     \* what handleContentAnalysis of r returned
    apiCalls,   \* number of Gemini API calls request r issued
    writes,     \* number of modelUsage writes request r completed
    responses,  \* number of sendResponse calls for request r
    saveReply,  \* the answer to the last SAVE_API_KEY message
    init,       \* the storage contents at start
    page,       \* the content script's page: selection, body text, content read
    ui          \* the content script: popups, listeners, handleAIRequest

vars == << day, apiKey, store, pc, sel, checkDay, incDay, toSave, result,
           apiCalls, writes, responses, saveReply, init, page, ui >>

Init ==
    /\ day = 1
    /\ apiKey \in { Undefined, Str(<<"k">>) }
    /\ store \in InitUsages
    /\ pc = [r \in Reqs |-> "idle"]
    /\ sel = [r \in Reqs |-> NoModel]
    /\ checkDay = [r \in Reqs |-> 0]
    /\ incDay = [r \in Reqs |-> 0]
    /\ toSave = [r \in Reqs |-> EmptyUsage]
    /\ result = [r \in Reqs |-> "pending"]
    /\ apiCalls = [r \in Reqs |-> 0]
    /\ writes = [r \in Reqs |-> 0]
    /\ responses = [r \in Reqs |-> 0]
    /\ saveReply = "none"
    /\ init = [apiKey |-> apiKey, usage |-> store]
    /\ page = PageIdle
    /\ ui = UiIdle

InFlight(r) == pc[r] \notin {"idle", "done"}

\* isModelAvailable with the comparison off by one (<= for <).
isModelAvailableOffByOne(modelName, usage, today) ==
    /\ modelName \in ModelNames
    /\ usage[ModelKey(modelName, today)] <= Daily(modelName)

\* isModelAvailable with today computed once, when the worker started.
isModelAvailableFirstDay(modelName, usage, today) ==
    /\ modelName \in ModelNames
    /\ usage[ModelKey(modelName, 1)] < Daily(modelName)

\* isModelAvailable(modelName, usage), with today the current local day.
isModelAvailable(modelName, usage, today) ==
    /\ modelName \in ModelNames
    /\ usage[ModelKey(modelName, today)] < Daily(modelName)

\* The selection loop of handleContentAnalysis: the first model of
\* MODEL_CONFIG that isModelAvailable accepts, NoModel when there is none.
FirstAvailable(usage, today) ==
    LET ok == { i \in 1..Len(MODEL_CONFIG) :
                    isModelAvailable(MODEL_CONFIG[i].name, usage, today) }
    IN  IF ok = {} THEN NoModel
        ELSE MODEL_CONFIG[CHOOSE i \in ok : \A j \in ok : i <= j].name

\* handleContentAnalysis returns res and the listener's .then(sendResponse)
\* answers the message: the promise reaction runs as a microtask, before any
\* other storage or network completion is handled.
sendResponse(r, res) ==
    /\ result' = [result EXCEPT ![r] = res]
    /\ responses' = [responses EXCEPT ![r] = @ + 1]
    /\ pc' = [pc EXCEPT ![r] = "done"]

\* The onMessage listener receives ANALYZE_CONTENT and starts
\* handleContentAnalysis, which runs up to its first await (the key lookup).
\* Requests are numbered in the order they arrive.
Receive(r) ==
    /\ pc[r] = "idle"
    /\ \A q \in Reqs : q < r => pc[q] # "idle"
    /\ pc' = [pc EXCEPT ![r] = "getKey"]
    /\ UNCHANGED << day, apiKey, store, sel, checkDay, incDay, toSave, result,
                    apiCalls, writes, responses, saveReply, init, page, ui >>

\* getConfiguredApiKey without the trim in its test: any non-empty string
\* counts as a key.
getConfiguredApiKeyUntrimmed(stored) ==
    IF stored.type = "string" /\ Len(stored.chars) > 0
    THEN Str(stored.chars)
    ELSE Undefined

\* getConfiguredApiKey: the stored key, trimmed, or null.
getConfiguredApiKey(stored) ==
    IF stored.type = "string" /\ Len(Trim(stored.chars)) > 0
    THEN Str(Trim(stored.chars))
    ELSE Undefined

\* getModelUsage: the stored record, or {} when the read fails.
getModelUsage(failed) == IF failed THEN EmptyUsage ELSE store

\* await getConfiguredApiKey() resolves (null when the read failed); without
\* a key the request returns the 'API key not configured' error, otherwise
\* getModelUsage is awaited.
KeyRead(r, failed) ==
    /\ pc[r] = "getKey"
    /\ LET key == IF failed THEN Undefined ELSE getConfiguredApiKey(apiKey)
       IN  IF key = Undefined
           THEN sendResponse(r, "nokey")
           ELSE /\ pc' = [pc EXCEPT ![r] = "getUsage"]
                /\ UNCHANGED << result, responses >>
    /\ UNCHANGED << day, apiKey, store, sel, checkDay, incDay, toSave,
                    apiCalls, writes, saveReply, init, page, ui >>

\* SelectModel with the exhaustion test moved behind the API call: the last
\* model of MODEL_CONFIG is called before the exhausted result is returned.
SelectModelCallFirst(r, failed) ==
    /\ pc[r] = "getUsage"
    /\ LET usage == getModelUsage(failed)
           selectedModel == FirstAvailable(usage, day)
       IN  IF selectedModel = NoModel
           THEN /\ sendResponse(r, "exhausted")
                /\ apiCalls' = [apiCalls EXCEPT ![r] = @ + 1]
                /\ UNCHANGED << sel, checkDay >>
           ELSE /\ sel' = [sel EXCEPT ![r] = selectedModel]
                /\ checkDay' = [checkDay EXCEPT ![r] = day]
                /\ apiCalls' = [apiCalls EXCEPT ![r] = @ + 1]
                /\ pc' = [pc EXCEPT ![r] = "fetch"]
                /\ UNCHANGED << result, responses >>
    /\ UNCHANGED << day, apiKey, store, incDay, toSave, writes, saveReply, init, page, ui >>

\* await getModelUsage() resolves, the selection loop runs, and either the
\* exhausted result is returned or the Gemini API call is issued.
SelectModel(r, failed) ==
    /\ pc[r] = "getUsage"
    /\ LET usage == getModelUsage(failed)
           selectedModel == FirstAvailable(usage, day)
       IN  IF selectedModel = NoModel
           THEN /\ sendResponse(r, "exhausted")
                /\ UNCHANGED << sel, checkDay, apiCalls >>
           ELSE /\ sel' = [sel EXCEPT ![r] = selectedModel]
                /\ checkDay' = [checkDay EXCEPT ![r] = day]
                /\ apiCalls' = [apiCalls EXCEPT ![r] = @ + 1]
                /\ pc' = [pc EXCEPT ![r] = "fetch"]
                /\ UNCHANGED << result, responses >>
    /\ UNCHANGED << day, apiKey, store, incDay, toSave, writes, saveReply, init, page, ui >>

\* What the Gemini API call may come to: a usable answer, a non-OK status,
\* an answer without candidates/content, or a rejected fetch.
ApiFailures == { "httpError", "invalid", "throw" }
ApiOutcomes == { "ok" } \cup ApiFailures

\* FetchDone with the usage counted as soon as the fetch settles, before the
\* answer is examined.
FetchDoneCountFirst(r, outcome) ==
    /\ pc[r] = "fetch"
    /\ store' = [store EXCEPT ![ModelKey(sel[r], day)] = @ + 1]
    /\ IF outcome = "ok"
       THEN /\ pc' = [pc EXCEPT ![r] = "incRead"]
            /\ UNCHANGED << result, responses, sel, checkDay >>
       ELSE /\ sendResponse(r, "error")
            /\ sel' = [sel EXCEPT ![r] = NoModel]
            /\ checkDay' = [checkDay EXCEPT ![r] = 0]
    /\ UNCHANGED << day, apiKey, incDay, toSave,
                    apiCalls, writes, saveReply, init, page, ui >>

\* FetchDone without the catch block of handleContentAnalysis: a rejected
\* fetch rejects the handler's promise and nothing is sent.
FetchDoneUncaught(r, outcome) ==
    /\ pc[r] = "fetch"
    /\ IF outcome = "ok"
       THEN /\ pc' = [pc EXCEPT ![r] = "incRead"]
            /\ UNCHANGED << result, responses, sel, checkDay >>
       ELSE IF outcome = "throw"
       THEN /\ pc' = [pc EXCEPT ![r] = "rejected"]
            /\ UNCHANGED << result, responses, sel, checkDay >>
       ELSE /\ sendResponse(r, "error")
            /\ sel' = [sel EXCEPT ![r] = NoModel]
            /\ checkDay' = [checkDay EXCEPT ![r] = 0]
    /\ UNCHANGED << day, apiKey, store, incDay, toSave,
                    apiCalls, writes, saveReply, init, page, ui >>

\* await fetch(...) settles.  A usable answer leads to incrementModelUsage,
\* whose getModelUsage is awaited next; every failure returns { error: ... }
\* (directly for a non-OK status or an answer without candidates, through
\* the catch block for a rejected fetch).
FetchDone(r, outcome) ==
    /\ pc[r] = "fetch"
    /\ IF outcome = "ok"
       THEN /\ pc' = [pc EXCEPT ![r] = "incRead"]
            /\ UNCHANGED << result, responses, sel, checkDay >>
       ELSE /\ sendResponse(r, "error")
            /\ sel' = [sel EXCEPT ![r] = NoModel]
            /\ checkDay' = [checkDay EXCEPT ![r] = 0]
    /\ UNCHANGED << day, apiKey, store, incDay, toSave,
                    apiCalls, writes, saveReply, init, page, ui >>

\* incrementModelUsage, first half: getModelUsage resolves, the key of today
\* is computed and incremented in the local copy, and the save is issued.
IncRead(r, failed) ==
    /\ pc[r] = "incRead"
    /\ LET usage == getModelUsage(failed)
           modelKey == ModelKey(sel[r], day)
       IN  /\ incDay' = [incDay EXCEPT ![r] = day]
           /\ toSave' = [toSave EXCEPT ![r] = [usage EXCEPT ![modelKey] = @ + 1]]
           /\ pc' = [pc EXCEPT ![r] = "incSave"]
    /\ UNCHANGED << day, apiKey, store, sel, checkDay, result, apiCalls,
                    writes, responses, saveReply, init, page, ui >>

\* IncSave with a set that fails only after the new record was committed.
IncSaveCommitOnFailure(r, failed) ==
    /\ pc[r] = "incSave"
    /\ store' = toSave[r]
    /\ writes' = [writes EXCEPT ![r] = IF failed THEN @ ELSE @ + 1]
    /\ toSave' = [toSave EXCEPT ![r] = EmptyUsage]
    /\ pc' = [pc EXCEPT ![r] = "finalRead"]
    /\ UNCHANGED << day, apiKey, sel, checkDay, incDay, result, apiCalls,
                    responses, saveReply, init, page, ui >>

\* incrementModelUsage, second half: saveModelUsage replaces the whole
\* modelUsage entry by the local copy; a failed set is logged and swallowed.
\* The request goes on to read the usage for its result.
IncSave(r, failed) ==
    /\ pc[r] = "incSave"
    /\ store' = IF failed THEN store ELSE toSave[r]
    /\ writes' = [writes EXCEPT ![r] = IF failed THEN @ ELSE @ + 1]
    /\ toSave' = [toSave EXCEPT ![r] = EmptyUsage]
    /\ pc' = [pc EXCEPT ![r] = "finalRead"]
    /\ UNCHANGED << day, apiKey, sel, checkDay, incDay, result, apiCalls,
                    responses, saveReply, init, page, ui >>

\* ReturnSuccess with a snapshot read that drops the counts of past days
\* from the stored record.
ReturnSuccessPruning(r) ==
    /\ pc[r] = "finalRead"
    /\ sendResponse(r, "success")
    /\ checkDay' = [checkDay EXCEPT ![r] = 0]
    /\ store' = [k \in UsageKeys |-> IF k[2] < day THEN 0 ELSE store[k]]
    /\ UNCHANGED << day, apiKey, sel, incDay, toSave,
                    apiCalls, writes, saveReply, init, page, ui >>

\* The getModelUsage of the result resolves and handleContentAnalysis
\* returns { success: true, model, usage }.
ReturnSuccess(r) ==
    /\ pc[r] = "finalRead"
    /\ sendResponse(r, "success")
    /\ checkDay' = [checkDay EXCEPT ![r] = 0]
    /\ UNCHANGED << day, apiKey, store, sel, incDay, toSave,
                    apiCalls, writes, saveReply, init, page, ui >>

\* SaveApiKey with a set that replaces the whole storage area instead of the
\* apiKey entry alone.
SaveApiKeyReplacingStorage(k, failed) ==
    /\ IF k.type # "string" \/ Len(Trim(k.chars)) = 0
       THEN /\ ~failed
            /\ saveReply' = "empty"
            /\ UNCHANGED << apiKey, store >>
       ELSE /\ apiKey' = IF failed THEN apiKey ELSE Str(Trim(k.chars))
            /\ store' = IF failed THEN store ELSE EmptyUsage
            /\ saveReply' = IF failed THEN "failed" ELSE "saved"
    /\ UNCHANGED << day, pc, sel, checkDay, incDay, toSave, result,
                    apiCalls, writes, responses, init, page, ui >>

\* SaveApiKey storing the key as received, without trimming it.
SaveApiKeyUntrimmed(k, failed) ==
    /\ IF k.type # "string" \/ Len(Trim(k.chars)) = 0
       THEN /\ ~failed
            /\ saveReply' = "empty"
            /\ UNCHANGED apiKey
       ELSE /\ apiKey' = IF failed THEN apiKey ELSE k
            /\ saveReply' = IF failed THEN "failed" ELSE "saved"
    /\ UNCHANGED << day, store, pc, sel, checkDay, incDay, toSave, result,
                    apiCalls, writes, responses, init, page, ui >>

\* The SAVE_API_KEY handler: an empty or non-string key is refused before any
\* storage operation, any other key is stored trimmed; a failed set is
\* answered with success: false.
SaveApiKey(k, failed) ==
    /\ IF k.type # "string" \/ Len(Trim(k.chars)) = 0
       THEN /\ ~failed
            /\ saveReply' = "empty"
            /\ UNCHANGED apiKey
       ELSE /\ apiKey' = IF failed THEN apiKey ELSE Str(Trim(k.chars))
            /\ saveReply' = IF failed THEN "failed" ELSE "saved"
    /\ UNCHANGED << day, store, pc, sel, checkDay, incDay, toSave, result,
                    apiCalls, writes, responses, init, page, ui >>

\* What window.prompt may return in ensureApiKey: null when the user cancels,
\* or the text typed.
PromptInputs == { Undefined, Str(<< Blank >>), Str(<< Blank, "k", Blank >>) }

\* The content script's ensureApiKey: when the read of the stored key fails
\* or finds no usable key the user is prompted; a cancelled or blank entry
\* throws before any write, any other entry is stored trimmed under apiKey,
\* and a failed set throws.  The prompt blocks the page, not the service
\* worker; nothing but the apiKey entry is read or written.
EnsureApiKey(userInput, readFailed, setFailed) ==
    /\ readFailed \/ getConfiguredApiKey(apiKey) = Undefined
    /\ IF userInput.type # "string" \/ Len(Trim(userInput.chars)) = 0
       THEN /\ ~setFailed
            /\ UNCHANGED apiKey
       ELSE apiKey' = IF setFailed THEN apiKey ELSE Str(Trim(userInput.chars))
    /\ UNCHANGED << day, store, pc, sel, checkDay, incDay, toSave, result,
                    apiCalls, writes, responses, saveReply, init, page, ui >>

\* Midnight passes: new Date().toDateString() changes.
Tick ==
    /\ day < MaxDay
    /\ day' = day + 1
    /\ UNCHANGED << apiKey, store, pc, sel, checkDay, incDay, toSave, result,
                    apiCalls, writes, responses, saveReply, init, page, ui >>

\* Any interleaving of the handlers, with storage and API free to fail.
Next ==
    \/ \E r \in Reqs : Receive(r)
    \/ \E r \in Reqs, failed \in BOOLEAN : KeyRead(r, failed)
    \/ \E r \in Reqs, failed \in BOOLEAN : SelectModel(r, failed)
    \/ \E r \in Reqs, outcome \in ApiOutcomes : FetchDone(r, outcome)
    \/ \E r \in Reqs, failed \in BOOLEAN : IncRead(r, failed)
    \/ \E r \in Reqs, failed \in BOOLEAN : IncSave(r, failed)
    \/ \E r \in Reqs : ReturnSuccess(r)
    \/ \E k \in KeyInputs, failed \in BOOLEAN : SaveApiKey(k, failed)
    \/ \E u \in PromptInputs, readFailed, setFailed \in BOOLEAN :
           EnsureApiKey(u, readFailed, setFailed)
    \/ Tick

Spec == Init /\ [][Next]_vars

\* The steps of handleContentAnalysis for request r after its reception: the
\* storage or network operation it awaits settles, one way or the other.
Continue(r) ==
    \/ \E failed \in BOOLEAN : KeyRead(r, failed)
    \/ \E failed \in BOOLEAN : SelectModel(r, failed)
    \/ \E outcome \in ApiOutcomes : FetchDone(r, outcome)
    \/ \E failed \in BOOLEAN : IncRead(r, failed)
    \/ \E failed \in BOOLEAN : IncSave(r, failed)
    \/ ReturnSuccess(r)

\* Any interleaving of the analysis requests on one calendar day, with storage
\* and API free to fail, the stored key being left as it is.
NextRequests ==
    \/ \E r \in Reqs : Receive(r)
    \/ \E r \in Reqs, failed \in BOOLEAN : KeyRead(r, failed)
    \/ \E r \in Reqs, failed \in BOOLEAN : SelectModel(r, failed)
    \/ \E r \in Reqs, outcome \in ApiOutcomes : FetchDone(r, outcome)
    \/ \E r \in Reqs, failed \in BOOLEAN : IncRead(r, failed)
    \/ \E r \in Reqs, failed \in BOOLEAN : IncSave(r, failed)
    \/ \E r \in Reqs : ReturnSuccess(r)

\* The requests with every awaited storage and network operation settling.
Live == Init /\ [][NextRequests]_vars /\ \A r \in Reqs : WF_vars(Continue(r))

\* Any interleaving of the handlers while storage and API succeed.
NextReliable ==
    \/ \E r \in Reqs : Receive(r)
    \/ \E r \in Reqs : KeyRead(r, FALSE)
    \/ \E r \in Reqs : SelectModel(r, FALSE)
    \/ \E r \in Reqs : FetchDone(r, "ok")
    \/ \E r \in Reqs : IncRead(r, FALSE)
    \/ \E r \in Reqs : IncSave(r, FALSE)
    \/ \E r \in Reqs : ReturnSuccess(r)
    \/ \E k \in KeyInputs : SaveApiKey(k, FALSE)
    \/ \E u \in PromptInputs : EnsureApiKey(u, FALSE, FALSE)
    \/ Tick

Reliable == Init /\ [][NextReliable]_vars

\* A message arrives while no other request is in flight.
ReceiveAlone(r) ==
    /\ \A q \in Reqs : ~InFlight(q)
    /\ Receive(r)

\* Non-overlapping requests on one calendar day, storage and API succeeding.
NextSequential ==
    \/ \E r \in Reqs : ReceiveAlone(r)
    \/ \E r \in Reqs : KeyRead(r, FALSE)
    \/ \E r \in Reqs : SelectModel(r, FALSE)
    \/ \E r \in Reqs : FetchDone(r, "ok")
    \/ \E r \in Reqs : IncRead(r, FALSE)
    \/ \E r \in Reqs : IncSave(r, FALSE)
    \/ \E r \in Reqs : ReturnSuccess(r)
    \/ \E k \in KeyInputs : SaveApiKey(k, FALSE)
    \/ \E u \in PromptInputs : EnsureApiKey(u, FALSE, FALSE)

Sequential == Init /\ [][NextSequential]_vars

\* Midnight passes while no request is in flight.
TickIdle ==
    /\ \A q \in Reqs : ~InFlight(q)
    /\ Tick

\* Non-overlapping requests, each within one calendar day, over several
\* days; storage and API succeeding.
NextRollover ==
    \/ \E r \in Reqs : ReceiveAlone(r)
    \/ \E r \in Reqs : KeyRead(r, FALSE)
    \/ \E r \in Reqs : SelectModel(r, FALSE)
    \/ \E r \in Reqs : FetchDone(r, "ok")
    \/ \E r \in Reqs : IncRead(r, FALSE)
    \/ \E r \in Reqs : IncSave(r, FALSE)
    \/ \E r \in Reqs : ReturnSuccess(r)
    \/ \E k \in KeyInputs : SaveApiKey(k, FALSE)
    \/ \E u \in PromptInputs : EnsureApiKey(u, FALSE, FALSE)
    \/ TickIdle

Rollover == Init /\ [][NextRollover]_vars

\* Non-overlapping requests on one calendar day; the set of the usage record
\* may fail, every other storage operation and the API succeed.
NextSaveFaults ==
    \/ \E r \in Reqs : ReceiveAlone(r)
    \/ \E r \in Reqs : KeyRead(r, FALSE)
    \/ \E r \in Reqs : SelectModel(r, FALSE)
    \/ \E r \in Reqs : FetchDone(r, "ok")
    \/ \E r \in Reqs : IncRead(r, FALSE)
    \/ \E r \in Reqs, failed \in BOOLEAN : IncSave(r, failed)
    \/ \E r \in Reqs : ReturnSuccess(r)
    \/ \E k \in KeyInputs : SaveApiKey(k, FALSE)
    \/ \E u \in PromptInputs : EnsureApiKey(u, FALSE, FALSE)

SaveFaults == Init /\ [][NextSaveFaults]_vars

\* Non-overlapping requests on one calendar day; the usage read of
\* incrementModelUsage may fail, every other storage operation and the API
\* succeed.
NextReadFaults ==
    \/ \E r \in Reqs : ReceiveAlone(r)
    \/ \E r \in Reqs : KeyRead(r, FALSE)
    \/ \E r \in Reqs : SelectModel(r, FALSE)
    \/ \E r \in Reqs : FetchDone(r, "ok")
    \/ \E r \in Reqs, failed \in BOOLEAN : IncRead(r, failed)
    \/ \E r \in Reqs : IncSave(r, FALSE)
    \/ \E r \in Reqs : ReturnSuccess(r)
    \/ \E k \in KeyInputs : SaveApiKey(k, FALSE)
    \/ \E u \in PromptInputs : EnsureApiKey(u, FALSE, FALSE)

ReadFaults == Init /\ [][NextReadFaults]_vars

\* What the apiKey entry of the synced storage may hold when the service
\* worker starts: nothing, a key, a blank string or a value of another type.
StoredKeys == { Undefined, Str(<< "k" >>), Str(<< Blank >>), Number }

InitKeys ==
    /\ day = 1
    /\ apiKey \in StoredKeys
    /\ store \in InitUsages
    /\ pc = [r \in Reqs |-> "idle"]
    /\ sel = [r \in Reqs |-> NoModel]
    /\ checkDay = [r \in Reqs |-> 0]
    /\ incDay = [r \in Reqs |-> 0]
    /\ toSave = [r \in Reqs |-> EmptyUsage]
    /\ result = [r \in Reqs |-> "pending"]
    /\ apiCalls = [r \in Reqs |-> 0]
    /\ writes = [r \in Reqs |-> 0]
    /\ responses = [r \in Reqs |-> 0]
    /\ saveReply = "none"
    /\ init = [apiKey |-> apiKey, usage |-> store]
    /\ page = PageIdle
    /\ ui = UiIdle

\* Non-overlapping requests on one calendar day; reading and saving the API
\* key may fail, the usage record and the API work.
NextKeyFaults ==
    \/ \E r \in Reqs : ReceiveAlone(r)
    \/ \E r \in Reqs, failed \in BOOLEAN : KeyRead(r, failed)
    \/ \E r \in Reqs : SelectModel(r, FALSE)
    \/ \E r \in Reqs : FetchDone(r, "ok")
    \/ \E r \in Reqs : IncRead(r, FALSE)
    \/ \E r \in Reqs : IncSave(r, FALSE)
    \/ \E r \in Reqs : ReturnSuccess(r)
    \/ \E k \in KeyInputs, failed \in BOOLEAN : SaveApiKey(k, failed)
    \/ \E u \in PromptInputs, readFailed, setFailed \in BOOLEAN :
           EnsureApiKey(u, readFailed, setFailed)

KeySpec == InitKeys /\ [][NextKeyFaults]_vars

(***************************************************************************)
(* The content script reading the page for an analysis request.            *)
(***************************************************************************)
InitContent ==
    /\ day = 1
    /\ apiKey = Undefined
    /\ store = EmptyUsage
    /\ pc = [r \in Reqs |-> "idle"]
    /\ sel = [r \in Reqs |-> NoModel]
    /\ checkDay = [r \in Reqs |-> 0]
    /\ incDay = [r \in Reqs |-> 0]
    /\ toSave = [r \in Reqs |-> EmptyUsage]
    /\ result = [r \in Reqs |-> "pending"]
    /\ apiCalls = [r \in Reqs |-> 0]
    /\ writes = [r \in Reqs |-> 0]
    /\ responses = [r \in Reqs |-> 0]
    /\ saveReply = "none"
    /\ init = [apiKey |-> apiKey, usage |-> store]
    /\ \E s \in TextLengths, b \in TextLengths :
           page = [selectedText |-> s, bodyText |-> b, content |-> NotRead]
    /\ ui = UiIdle

\* handleAIRequest calls getPageContent() for the content of the request.
ReadPageContent ==
    /\ page.content = NotRead
    /\ page' = [page EXCEPT !.content = getPageContent(page.selectedText, page.bodyText)]
    /\ UNCHANGED << day, apiKey, store, pc, sel, checkDay, incDay, toSave, result,
                    apiCalls, writes, responses, saveReply, init, ui >>

ContentSpec == InitContent /\ [][ReadPageContent]_vars

(***************************************************************************)
(* One content-script instance in a page: key presses, handleAIRequest,    *)
(* the popups' buttons and timers, the mouse.  The background is seen      *)
(* through the answers to the messages only.                               *)
(***************************************************************************)
InitPage ==
    /\ day = 1
    /\ apiKey \in { Undefined, Str(<< "k" >>) }
    /\ store = EmptyUsage
    /\ pc = [r \in Reqs |-> "idle"]
    /\ sel = [r \in Reqs |-> NoModel]
    /\ checkDay = [r \in Reqs |-> 0]
    /\ incDay = [r \in Reqs |-> 0]
    /\ toSave = [r \in Reqs |-> EmptyUsage]
    /\ result = [r \in Reqs |-> "pending"]
    /\ apiCalls = [r \in Reqs |-> 0]
    /\ writes = [r \in Reqs |-> 0]
    /\ responses = [r \in Reqs |-> 0]
    /\ saveReply = "none"
    /\ init = [apiKey |-> apiKey, usage |-> store]
    /\ page = PageIdle
    /\ ui \in { UiInit(script) : script \in Scripts }

\* A Ctrl+G keydown: the listener calls handleAIRequest; in content.js and
\* part_003 the document and the window listener both do when the event
\* reaches both, one after the other in the same task.
KeyPress(both, contextValid) ==
    /\ ui.presses < MaxKeyPresses
    /\ both => ui.script # "part_000"
    /\ LET s0 == [ui EXCEPT !.presses = @ + 1]
           s1 == handleAIRequest(s0, contextValid)
           s2 == IF both THEN handleAIRequest(s1, contextValid) ELSE s1
       IN  ui' = Observe(s2)
    /\ UNCHANGED << day, apiKey, store, pc, sel, checkDay, incDay, toSave, result,
                    apiCalls, writes, responses, saveReply, init, page >>

\* content.js: the storage read of ensureApiKey settles.  With a stored key
\* the request goes on; otherwise window.prompt asks for one, a cancelled or
\* blank entry throws (error popup, finally), any other is trimmed and its
\* storage set awaited.
KeyGetDone(readFailed, userInput, contextValid) ==
    /\ ui.position = "keyGet"
    /\ LET existingKey == IF readFailed THEN Undefined
                          ELSE getConfiguredApiKey(apiKey)
       IN  IF existingKey # Undefined
           THEN ui' = Observe(SendRequest(ui, contextValid))
           ELSE IF userInput.type # "string" \/ Len(Trim(userInput.chars)) = 0
           THEN ui' = Observe(Finish(displayError(ui)))
           ELSE ui' = [ui EXCEPT !.position = "keySet",
                                 !.cleanedKey = Str(Trim(userInput.chars))]
    /\ UNCHANGED << day, apiKey, store, pc, sel, checkDay, incDay, toSave, result,
                    apiCalls, writes, responses, saveReply, init, page >>

\* content.js: the storage set of ensureApiKey settles; a failure throws.
KeySetDone(setFailed, contextValid) ==
    /\ ui.position = "keySet"
    /\ LET s0 == [ui EXCEPT !.cleanedKey = Undefined]
       IN  IF setFailed
           THEN /\ ui' = Observe(Finish(displayError(s0)))
                /\ UNCHANGED apiKey
           ELSE /\ ui' = Observe(SendRequest(s0, contextValid))
                /\ apiKey' = ui.cleanedKey
    /\ UNCHANGED << day, store, pc, sel, checkDay, incDay, toSave, result,
                    apiCalls, writes, responses, saveReply, init, page >>

\* The await of sendMessage settles and the rest of handleAIRequest runs.
Answer(answer) ==
    /\ ui.position = "send"
    /\ ui.pending > 0
    /\ ui' = Observe(showAnswer(ui, answer))
    /\ UNCHANGED << day, apiKey, store, pc, sel, checkDay, incDay, toSave, result,
                    apiCalls, writes, responses, saveReply, init, page >>

\* The user clicks the close button of an error or response popup.
ClickClose(popup) ==
    /\ popup \in ui.attached
    /\ ui.kind[popup] \in { "error", "response" }
    /\ ui' = Observe(clickClose(ui, popup))
    /\ UNCHANGED << day, apiKey, store, pc, sel, checkDay, incDay, toSave, result,
                    apiCalls, writes, responses, saveReply, init, page >>

\* The 10 s timer of an error popup fires.
AutoRemove(popup) ==
    /\ popup \in ui.timers
    /\ ui' = Observe(autoRemove(ui, popup))
    /\ UNCHANGED << day, apiKey, store, pc, sel, checkDay, incDay, toSave, result,
                    apiCalls, writes, responses, saveReply, init, page >>

\* mousedown on the header of a response popup; part_003 registers the drag
\* listeners on the document here.
MouseDown(popup) ==
    /\ ui.mouseDown = 0
    /\ popup \in ui.attached
    /\ ui.kind[popup] = "response"
    /\ ui' = [ui EXCEPT !.mouseDown = popup,
                        !.dragListeners = IF ui.script = "part_003"
                                          THEN @ \cup { popup } ELSE @]
    /\ UNCHANGED << day, apiKey, store, pc, sel, checkDay, incDay, toSave, result,
                    apiCalls, writes, responses, saveReply, init, page >>

\* mouseup: every onMouseUp on the document runs; those of part_003 remove
\* their pair of listeners.
MouseUp ==
    /\ ui.mouseDown # 0
    /\ ui' = [ui EXCEPT !.mouseDown = 0,
                        !.dragListeners = IF ui.script = "part_003" THEN {} ELSE @]
    /\ UNCHANGED << day, apiKey, store, pc, sel, checkDay, incDay, toSave, result,
                    apiCalls, writes, responses, saveReply, init, page >>

\* The continuations of handleAIRequest after its awaits.
HandlerStep ==
    \/ \E readFailed, contextValid \in BOOLEAN, userInput \in PromptInputs :
           KeyGetDone(readFailed, userInput, contextValid)
    \/ \E setFailed, contextValid \in BOOLEAN : KeySetDone(setFailed, contextValid)
    \/ \E answer \in Answers : Answer(answer)

NextPage ==
    \/ \E both, contextValid \in BOOLEAN : KeyPress(both, contextValid)
    \/ \E readFailed, contextValid \in BOOLEAN, userInput \in PromptInputs :
           KeyGetDone(readFailed, userInput, contextValid)
    \/ \E setFailed, contextValid \in BOOLEAN : KeySetDone(setFailed, contextValid)
    \/ \E answer \in Answers : Answer(answer)
    \/ \E popup \in PopupIds : ClickClose(popup)
    \/ \E popup \in PopupIds : AutoRemove(popup)
    \/ \E popup \in PopupIds : MouseDown(popup)
    \/ MouseUp

PageSpec == InitPage /\ [][NextPage]_vars

\* The page with every awaited storage operation and message settling.
PageLive == PageSpec /\ WF_vars(HandlerStep)

(***************************************************************************)
(* Properties                                                              *)
(***************************************************************************)
Done(r) == pc[r] = "done"
AllDone == \A r \in Reqs : Done(r)
FirstModel == MODEL_CONFIG[1].name
KeyConfiguredAtStart == init.apiKey # Undefined

\* The requests that returned success for modelName with the increment keyed
\* to day d.
Granted(modelName, d) ==
    { r \in Reqs : result[r] = "success" /\ sel[r] = modelName /\ incDay[r] = d }

\* The request has passed its availability check (the selection loop ran).
Checked(r) ==
    \/ pc[r] \in { "fetch", "incRead", "incSave", "finalRead" }
    \/ Done(r) /\ result[r] # "nokey"

\* The request is between its availability read and its usage save.
Reserving(r) == pc[r] \in { "fetch", "incRead", "incSave" }

\* C1: the number of requests that return success for a model on a day never
\* exceeds the model's daily capacity, whatever the interleaving.
C1_SuccessesWithinCapacity ==
    \A m \in ModelNames, d \in Days : Cardinality(Granted(m, d)) <= Daily(m)

\* C2: every stored count is at most the daily capacity of its model.
C2_StoredCountWithinCapacity ==
    \A k \in UsageKeys : store[k] <= Daily(k[1])

\* C3: at no time are two requests both between their availability read and
\* their usage save.
C3_CheckAndIncrementIndivisible ==
    Cardinality({ r \in Reqs : Reserving(r) }) <= 1

\* C4: N requests against a single model of capacity K with no prior usage
\* that day, N > K (every other model is already at capacity; storage and
\* API succeed): exactly K return success and N - K the exhausted result.
C4_ExactlyCapacitySucceed ==
    ( /\ AllDone
      /\ day = 1
      /\ KeyConfiguredAtStart
      /\ init.usage = LaterModelsFull
      /\ NumRequests > Daily(FirstModel) )
    => /\ Cardinality({ r \in Reqs : result[r] = "success" }) = Daily(FirstModel)
       /\ Cardinality({ r \in Reqs : result[r] = "exhausted" })
              = NumRequests - Daily(FirstModel)

\* C5: once every request has finished, the stored count of every key is its
\* initial value plus the number of requests that succeeded on that key.
C5_CountsAccurate ==
    AllDone =>
        \A k \in UsageKeys :
            store[k] = init.usage[k] + Cardinality(Granted(k[1], k[2]))

\* C6: if request a arrived before request b, a's check-and-increment is
\* complete before b's check begins.
C6_ArrivalOrder ==
    \A a, b \in Reqs :
        (a < b /\ Checked(b)) => pc[a] \in { "finalRead", "done" }

\* C7: a grant (the save of the incremented count) is always for the first
\* model of MODEL_CONFIG whose stored count for that day is below its
\* capacity at that moment.
C7_GrantsFirstAvailableModel ==
    \A r \in Reqs :
        (pc[r] = "incSave" /\ incDay[r] = checkDay[r]) =>
            sel[r] = FirstAvailable(store, incDay[r])

\* C8: non-overlapping requests on one day against a single model of
\* capacity K (every other model already at capacity): the first K return
\* success with that model, every later one the exhausted result, which is
\* an ordinary answer to the message.
C8_FirstKThenExhausted ==
    (KeyConfiguredAtStart /\ init.usage = LaterModelsFull) =>
        \A r \in Reqs :
            Done(r) =>
                /\ responses[r] = 1
                /\ IF r <= Daily(FirstModel)
                   THEN result[r] = "success" /\ sel[r] = FirstModel
                   ELSE result[r] = "exhausted"

C8_Witness ==
    /\ KeyConfiguredAtStart
    /\ init.usage = LaterModelsFull
    /\ AllDone
    /\ result[1] = "success"
    /\ result[NumRequests] = "exhausted"

\* C9: a request that reports exhaustion has issued no Gemini API call and
\* has written no usage count.
C9_ExhaustedUsesNothing ==
    \A r \in Reqs :
        result[r] = "exhausted" =>
            apiCalls[r] = 0 /\ writes[r] = 0 /\ sel[r] = NoModel

C9_Witness ==
    \E r \in Reqs :
        /\ Done(r)
        /\ result[r] = "exhausted"
        /\ \A m \in ModelNames : store[ModelKey(m, day)] >= Daily(m)

\* C10: within a request the incremented count is saved before the Gemini
\* API call is issued, and nothing is incremented after the call.
C10_ReservedBeforeApiCall ==
    \A r \in Reqs :
        /\ apiCalls[r] > 0 => writes[r] > 0
        /\ pc[r] \notin { "incRead", "incSave" }

\* C11: counts are keyed by day and nothing resets them.  A request that
\* runs on a day on which the first model's count is below its capacity is
\* granted that model and returns success, however full the model was on
\* earlier days, and no step changes the count of a day other than today.
C11_DayRollover ==
    [][ /\ \A r \in Reqs :
             ( /\ pc[r] = "getUsage"
               /\ pc'[r] # "getUsage"
               /\ store[ModelKey(FirstModel, day)] < Daily(FirstModel) )
             => pc'[r] = "fetch" /\ sel'[r] = FirstModel
        /\ \A r \in Reqs :
             (pc[r] = "finalRead" /\ pc'[r] = "done")
             => /\ result'[r] = "success"
                /\ store[ModelKey(sel[r], incDay[r])] > 0
        /\ \A k \in UsageKeys : k[2] # day => store'[k] = store[k] ]_vars

\* The first model was exhausted on day 1, and a request of day 2 succeeded
\* on it, leaving the count of day 1 as it was.
C11_Witness ==
    /\ day = 2
    /\ store[ModelKey(FirstModel, 1)] = Daily(FirstModel)
    /\ \E r \in Reqs :
          /\ Done(r)
          /\ result[r] = "success"
          /\ sel[r] = FirstModel
          /\ incDay[r] = 2
          /\ store[ModelKey(FirstModel, 2)] = 1

\* C12: no step lowers the stored count of any (model, day) key, and a count
\* changes only in the save of a reservation.
C12_CountsNeverDecrease ==
    [][ \A k \in UsageKeys :
            /\ store'[k] >= store[k]
            /\ store'[k] # store[k] =>
                   \E r \in Reqs : pc[r] = "incSave" /\ pc'[r] = "finalRead" ]_vars

\* The storage set of request r's incremented count failed.
SaveFailed(r) ==
    /\ pc[r] \in { "finalRead", "done" }
    /\ incDay[r] # 0
    /\ writes[r] = 0

\* C13: a request returns success only after the storage write holding its
\* increment has completed.
C13_SuccessOnlyAfterSave ==
    \A r \in Reqs : result[r] = "success" => writes[r] >= 1

\* C14: when the storage set of a reservation fails, the request answers
\* with an error, which is neither the success nor the exhausted result.
C14_SaveFailureIsAnError ==
    \A r \in Reqs :
        (Done(r) /\ SaveFailed(r)) =>
            result[r] \notin { "success", "exhausted" } /\ result[r] = "error"

\* Within one request there is at most one API call and one usage write.
NoRetries ==
    \A r \in Reqs : apiCalls[r] <= 1 /\ writes[r] <= 1

\* The requests whose incremented count of key k was written to storage.
Saved(k) ==
    { r \in Reqs : writes[r] = 1 /\ sel[r] = k[1] /\ incDay[r] = k[2] }

\* C15: with requests one at a time, a request whose storage set failed leaves
\* every stored count (what getModelUsage shows) at its value before the
\* attempt: each count is the initial one plus the writes that succeeded; and
\* failed attempts block no later request: the exhausted result is returned
\* only when every model's stored count of today is at its capacity.
C15_FailedSaveLeavesCounts ==
    /\ \A k \in UsageKeys :
           store[k] = init.usage[k] + Cardinality(Saved(k))
    /\ \A r \in Reqs :
           (Done(r) /\ result[r] = "exhausted")
           => \A m \in ModelNames : store[ModelKey(m, day)] >= Daily(m)

\* A request whose set failed, then a later request granted the same model
\* and saved: the stored count is one above the initial one.
C15_Witness ==
    \E r, q \in Reqs :
        /\ r < q
        /\ Done(r) /\ SaveFailed(r)
        /\ Done(q) /\ result[q] = "success" /\ writes[q] = 1
        /\ sel[q] = sel[r]
        /\ store[ModelKey(sel[q], incDay[q])]
              = init.usage[ModelKey(sel[q], incDay[q])] + 1

\* C17: the stored usage record changes only in the step of a request that
\* completes saveModelUsage in incrementModelUsage, and then to that
\* request's record; a step that changes the apiKey entry or answers
\* SAVE_API_KEY (the SAVE_API_KEY handler, ensureApiKey) leaves every count
\* unchanged.
C17_UsageWrittenOnlyByIncrement ==
    [][ /\ store' # store
           => \E r \in Reqs : /\ pc[r] = "incSave" /\ pc'[r] = "finalRead"
                               /\ writes'[r] = writes[r] + 1
                               /\ store' = toSave[r]
        /\ (apiKey' # apiKey \/ saveReply' # saveReply) => store' = store ]_vars

\* A key was saved on top of a usage record with counts, before any request.
C17_Witness ==
    /\ saveReply = "saved"
    /\ init.apiKey = Undefined /\ apiKey # Undefined
    /\ \A r \in Reqs : pc[r] = "idle"
    /\ \E k \in UsageKeys : store[k] > 0

\* C18: a step in which getModelUsage resolves (for the selection, for the
\* increment, for the usage field of the success result) leaves the stored
\* record unchanged, and with it what the selection of a later request
\* yields; it changes the position or the local copy of no other request.
C18_SnapshotReadOnly ==
    [][ \A r \in Reqs :
            ( \/ pc[r] = "getUsage" /\ pc'[r] # "getUsage"
              \/ pc[r] = "incRead" /\ pc'[r] # "incRead"
              \/ pc[r] = "finalRead" /\ pc'[r] # "finalRead" )
            => /\ store' = store
               /\ FirstAvailable(store', day') = FirstAvailable(store, day)
               /\ apiKey' = apiKey
               /\ \A q \in Reqs \ { r } :
                      /\ pc'[q] = pc[q] /\ sel'[q] = sel[q]
                      /\ toSave'[q] = toSave[q] /\ result'[q] = result[q] ]_vars

\* A success result was built on a later day than that of an earlier counted
\* request, whose count is still stored.
C18_Witness ==
    \E r, q \in Reqs :
        /\ Done(r) /\ result[r] = "success" /\ writes[r] = 1
        /\ Done(q) /\ result[q] = "success" /\ writes[q] = 1
        /\ incDay[r] < incDay[q]
        /\ store[ModelKey(sel[r], incDay[r])] > 0
        /\ store[ModelKey(sel[q], incDay[q])] > 0

\* C19: no automatic retries: at most one Gemini API call and one usage
\* write per request, and a failure is returned to the caller.
C19_NoRetriesFailuresReturned ==
    /\ NoRetries
    /\ \A r \in Reqs :
          (Done(r) /\ apiCalls[r] = 1 /\ writes[r] = 0) => result[r] = "error"

\* C20: the content getPageContent hands to the analysis request is at most
\* 8000 characters long, from the body or from the selection.
C20_ContentAtMostLimit ==
    page.content # NotRead => page.content <= ContentLimit

\* C22: the step in which the Gemini API call of a request settles without a
\* usable answer returns an error result and leaves the stored usage record
\* unchanged; the request has written nothing and has no write pending.
C22_ApiFailureLeavesUsage ==
    [][ \A r \in Reqs :
            (pc[r] = "fetch" /\ pc'[r] = "done")
            => /\ result'[r] = "error"
               /\ store' = store
               /\ writes'[r] = 0 /\ incDay'[r] = 0
               /\ toSave'[r] = EmptyUsage ]_vars

\* The only request so far called the API, got no usable answer and returned
\* an error; the usage record, with counts in it, is the initial one.
C22_Witness ==
    /\ pc[1] = "done" /\ result[1] = "error" /\ apiCalls[1] = 1
    /\ \A r \in Reqs \ { 1 } : pc[r] = "idle"
    /\ store = init.usage
    /\ \E k \in UsageKeys : store[k] > 0

\* C23: the day of the key a request increments is the day of the key its
\* availability check looked at, also when midnight passes in between.
C23_IncrementsCheckedKey ==
    \A r \in Reqs :
        pc[r] \in { "incSave", "finalRead" } => incDay[r] = checkDay[r]

\* C24: the save that follows a failed usage read of incrementModelUsage
\* lowers no stored count: every key keeps at least its count of before.
C24_FailedReadLosesNothing ==
    [][ \A r \in Reqs :
            (pc[r] = "incSave" /\ pc'[r] = "finalRead")
            => \A k \in UsageKeys : store'[k] >= store[k] ]_vars

\* The results that carry an error field.
ErrorResults == { "nokey", "exhausted", "error" }

\* C27: a received ANALYZE_CONTENT message is answered exactly once: never
\* more than one sendResponse, the answer is either success with the selected
\* model or an error, and once received the message is eventually answered,
\* whatever storage and API operations fail.
C27_AnsweredExactlyOnce ==
    /\ [](\A r \in Reqs :
             /\ responses[r] = IF Done(r) THEN 1 ELSE 0
             /\ Done(r) => result[r] \in { "success" } \cup ErrorResults
             /\ (Done(r) /\ result[r] = "success") => sel[r] \in ModelNames
             /\ ~Done(r) => result[r] = "pending")
    /\ \A r \in Reqs : (pc[r] # "idle") ~> (Done(r) /\ responses[r] = 1)

\* Every request is answered, one after a rejected or failed API call and
\* another with success.
C27_Witness ==
    /\ AllDone
    /\ \E r \in Reqs : result[r] = "error" /\ responses[r] = 1
    /\ \E r \in Reqs : result[r] = "success" /\ responses[r] = 1

\* The stored value is a string with something else than white space in it.
Usable(stored) ==
    /\ stored.type = "string"
    /\ \E i \in 1..Len(stored.chars) : stored.chars[i] # Blank

\* C28: when the key lookup of a request resolves while the stored key is
\* absent, not a string or blank, the request returns the 'API key not
\* configured' error; a request returning that error has called no API and
\* written no count, and its returning step leaves the usage record as it is.
C28_NoKeyNoCallNoCount ==
    [][ \A r \in Reqs :
            (pc[r] = "getKey" /\ pc'[r] # "getKey")
            => /\ ~Usable(apiKey) => pc'[r] = "done" /\ result'[r] = "nokey"
               /\ result'[r] = "nokey"
                  => /\ store' = store
                     /\ apiCalls'[r] = 0 /\ writes'[r] = 0
                     /\ toSave'[r] = EmptyUsage
               /\ result'[r] \in { "pending", "nokey" } ]_vars

\* A request found a blank or non-string stored key and answered with the
\* error; the usage record, with counts in it, is the initial one.
C28_Witness ==
    /\ init.apiKey \in { Str(<< Blank >>), Number } /\ apiKey = init.apiKey
    /\ pc[1] = "done" /\ result[1] = "nokey" /\ apiCalls[1] = 0
    /\ store = init.usage
    /\ \E k \in UsageKeys : store[k] > 0

\* The keys SAVE_API_KEY accepts.
ValidKeyInputs == { k \in KeyInputs : Usable(k) }

\* C29: a SAVE_API_KEY answered with success: false (key refused, or storage
\* failure) leaves the stored key unchanged; one answered with success: true
\* has stored the trimmed form of an accepted key, which getConfiguredApiKey
\* then returns as it is; and whenever the stored key changes, the new value
\* is such a trimmed key.
C29_SaveApiKeyStoresTrimmedKey ==
    [][ /\ (saveReply' # saveReply /\ saveReply' \in { "empty", "failed" })
           => apiKey' = apiKey
        /\ (saveReply' # saveReply /\ saveReply' = "saved")
           => /\ \E k \in ValidKeyInputs : apiKey' = Str(Trim(k.chars))
              /\ getConfiguredApiKey(apiKey') = apiKey'
        /\ apiKey' # apiKey
           => /\ Usable(apiKey')
              /\ Trim(apiKey'.chars) = apiKey'.chars ]_vars

\* A key was saved over a stored value that was no key, and a request then
\* found it and succeeded.
C29_Witness ==
    /\ saveReply = "saved"
    /\ ~Usable(init.apiKey) /\ init.apiKey # Undefined
    /\ Usable(apiKey)
    /\ pc[1] = "done" /\ result[1] = "success"

\* C21: the drag listeners a response popup put on the document are there
\* only while the popup is attached (or the mouse button pressed on its header
\* is still down), so that never more than one popup's pair is registered.
C21_DragListenersRemoved ==
    /\ \A popup \in ui.dragListeners :
           popup \in ui.attached \/ ui.mouseDown = popup
    /\ Cardinality(ui.dragListeners) <= 1

\* C25: at most one ANALYZE_CONTENT message of a content script is awaiting
\* its answer, and only while isProcessingRequest is true; a key press
\* handled while isProcessingRequest is true sends nothing and leaves the
\* running request where it is, and one key press sends at most one message,
\* also when both listeners call handleAIRequest.
C25_OneRequestInFlight ==
    /\ [](ui.pending <= 1 /\ (ui.pending = 1 => ui.isProcessingRequest))
    /\ [][ ui'.presses # ui.presses
           => /\ ui'.pending <= ui.pending + 1
              /\ ui.isProcessingRequest
                 => /\ ui'.pending = ui.pending
                    /\ ui'.position = ui.position
                    /\ ui'.created = ui.created ]_vars

\* A second key press arrived while the first request awaited its answer: one
\* message, one loading popup.
C25_Witness ==
    /\ ui.presses = 2 /\ ui.pending = 1 /\ ui.position = "send"
    /\ ui.created = 1

\* C26: handleAIRequest is suspended at an await whenever isProcessingRequest
\* is true (every exit path has reset it), and with the awaited operations
\* settling a true isProcessingRequest eventually becomes false again.
C26_ProcessingFlagReset ==
    /\ [](ui.isProcessingRequest <=> ui.position # "idle")
    /\ (ui.isProcessingRequest ~> ~ui.isProcessingRequest)

\* After a request that ended with an error popup, a second key press started
\* a request that sent its message.
C26_Witness ==
    /\ ui.presses = 2 /\ ui.position = "send" /\ ui.pending = 1
    /\ \E popup \in PopupIds : ui.kind[popup] = "error"

\* C30: at most one popup is attached to the document, and currentPopup is
\* null or that attached popup.
C30_OnePopupCurrentAttached ==
    /\ Cardinality(ui.attached) <= 1
    /\ ui.currentPopup # 0 => ui.currentPopup \in ui.attached
    /\ ui.attached \subseteq { ui.currentPopup }

=============================================================================
